---- MODULE Spec2Model ----
(***************************************************************************)
(* ParkEase booking allocation: bookParkingSlot / isSlotAvailable /        *)
(* cancelBooking (src/src/lib/bookingService.ts), the route handlers that  *)
(* call them, the administrative slot override and the lifecycle sweeps.   *)
(*                                                                         *)
(* The store is PostgreSQL reached through Prisma.  prisma.$transaction is *)
(* called without an isolationLevel, so every transaction runs READ        *)
(* COMMITTED: each statement reads the rows committed at the moment the    *)
(* statement runs (plus the transaction's own writes), writes stay private *)
(* until commit, and an UPDATE holds a row lock until commit or rollback.  *)
(* Each statement of a handler is one step of the handler's process.       *)
(***************************************************************************)
EXTENDS Integers, Sequences, FiniteSets, TLC

(* ---------------------------------------------------------------- bounds *)
MaxTime == 2
MaxBookings == 2

(* ------------------------------------------------------------- constants *)
Procs == {"p1", "p2"}
SlotIds == {"s1", "s2"}
Times == 0..MaxTime
BookingIds == 1..MaxBookings

SlotStatus == {"AVAILABLE", "OCCUPIED", "RESERVED", "MAINTENANCE"}
BookingStatus == {"PENDING", "CONFIRMED", "CANCELLED", "COMPLETED"}
ActiveStatus == {"CONFIRMED", "PENDING"}

(* the authenticated caller behind each request process *)
UserOf(p) == p
RoleOf(p) == IF p = "p2" THEN "ADMIN" ELSE "USER"

(* GET /api/slots builds its cache key from the filters and the paging:   *)
(* slots:<status>:<row>:<column>:<limit>:<offset>                         *)
CacheKeys == {"slots:all:all:all:50:0"}

(* Redis: the stored listings (<<>> for an absent key) and whether the    *)
(* server answers; a command sent while it does not answer throws         *)
EmptyStore == [k \in CacheKeys |-> <<>>]
InitCache == [store |-> EmptyStore, up |-> TRUE]

VARIABLES slots, bookings, now, cache, pc, req, loc, result

vars == <<slots, bookings, now, cache, pc, req, loc, result>>

(* ------------------------------------------------------- request records *)
NoReq == [op |-> "none", slotId |-> "none", startTime |-> 0, endTime |-> 0,
          bookingId |-> 0, status |-> "none"]

(* private state of a request: the uncommitted writes of its transaction  *)
(* (ins: booking rows to insert, bkWrite: booking row updated to          *)
(* CANCELLED, slWrite/slStatus: slot row updated) and the listing it has  *)
(* fetched (data); for a sweep transaction, swDone: booking rows updated  *)
(* to COMPLETED, swFree: slots it found without another active booking,  *)
(* swHeld: slot rows it has updated to AVAILABLE                         *)
NoLoc == [ins |-> <<>>, bkWrite |-> 0, slWrite |-> "none", slStatus |-> "none", data |-> <<>>,
          swDone |-> {}, swFree |-> {}, swHeld |-> {}]

(* -------------------------------------------------------------- row locks *)
SlotLockedByOther(p, s) == \E q \in Procs \ {p} : loc[q].slWrite = s \/ s \in loc[q].swHeld
BookingLockedByOther(p, b) == \E q \in Procs \ {p} : loc[q].bkWrite = b \/ b \in loc[q].swDone

(* ---------------------------------------------------------------- commit *)
ApplyWritesConfirmed(p) ==
  /\ bookings' = [i \in 1..Len(bookings) |->
                    IF i = loc[p].bkWrite
                    THEN [bookings[i] EXCEPT !.status = "CONFIRMED"]
                    ELSE bookings[i]] \o loc[p].ins
  /\ slots' = [s \in DOMAIN slots |-> IF s = loc[p].slWrite THEN loc[p].slStatus ELSE slots[s]]

(* the transaction's writes become visible together *)
ApplyWrites(p) ==
  /\ bookings' = [i \in 1..Len(bookings) |->
                    IF i = loc[p].bkWrite
                    THEN [bookings[i] EXCEPT !.status = "CANCELLED"]
                    ELSE bookings[i]] \o loc[p].ins
  /\ slots' = [s \in DOMAIN slots |-> IF s = loc[p].slWrite THEN loc[p].slStatus ELSE slots[s]]

(* ------------------------------------------------------ overlap predicate *)
(* tx.booking.findFirst({where: {slotId, status in [CONFIRMED, PENDING],   *)
(*   AND: [{startTime: {lt: endTime}}, {endTime: {gt: startTime}}]}})      *)
(* scans the ledger and returns the first matching row id, 0 for null     *)
RECURSIVE FindFirstInclusiveFrom(_, _, _, _, _)
FindFirstInclusiveFrom(ledger, i, slotId, startTime, endTime) ==
  IF i > Len(ledger) THEN 0
  ELSE IF /\ ledger[i].slotId = slotId
          /\ ledger[i].status \in {"CONFIRMED", "PENDING"}
          /\ ledger[i].startTime <= endTime
          /\ ledger[i].endTime >= startTime
       THEN i
       ELSE FindFirstInclusiveFrom(ledger, i + 1, slotId, startTime, endTime)

findConflictInclusive(ledger, slotId, startTime, endTime) ==
  FindFirstInclusiveFrom(ledger, 1, slotId, startTime, endTime)

RECURSIVE FindFirstFrom(_, _, _, _, _)
FindFirstFrom(ledger, i, slotId, startTime, endTime) ==
  IF i > Len(ledger) THEN 0
  ELSE IF /\ ledger[i].slotId = slotId
          /\ ledger[i].status \in ActiveStatus
          /\ ledger[i].startTime < endTime
          /\ ledger[i].endTime > startTime
       THEN i
       ELSE FindFirstFrom(ledger, i + 1, slotId, startTime, endTime)

findConflict(ledger, slotId, startTime, endTime) ==
  FindFirstFrom(ledger, 1, slotId, startTime, endTime)

(* redis.ts 110-120: keys(pattern) then del(...keys); an error is logged   *)
(* and swallowed by the catch                                             *)
invalidateCachePattern ==
  cache' = IF cache.up THEN [cache EXCEPT !.store = EmptyStore] ELSE cache

Init ==
  /\ slots = [s \in {"s1"} |-> "AVAILABLE"]
  /\ bookings = <<>>
  /\ now = 0
  /\ cache = InitCache
  /\ pc = [p \in Procs |-> "idle"]
  /\ req = [p \in Procs |-> NoReq]
  /\ loc = [p \in Procs |-> NoLoc]
  /\ result = [p \in Procs |-> "none"]

(* the handler returns: its transaction (if any) is over *)
Finish(p, outcome) ==
  /\ pc' = [pc EXCEPT ![p] = "idle"]
  /\ loc' = [loc EXCEPT ![p] = NoLoc]
  /\ result' = [result EXCEPT ![p] = outcome]
  /\ req' = [req EXCEPT ![p] = NoReq]

Goto(p, label) ==
  /\ pc' = [pc EXCEPT ![p] = label]
  /\ UNCHANGED <<req, result>>

(* ------------------------------------------------------------------ time *)
Tick ==
  /\ now < MaxTime
  /\ now' = now + 1
  /\ UNCHANGED <<slots, bookings, cache, pc, req, loc, result>>

(* ---------------------------------------- POST /api/bookings: reserve *)
(* bookParkingSlot lines 61-81: validation before the transaction opens  *)
ValidWindowNoPastCheck(startTime, endTime, t) == ~(startTime >= endTime)

ValidWindow(startTime, endTime, t) == ~(startTime >= endTime) /\ ~(startTime < t)

InFlightBooks(p) == Cardinality({q \in Procs \ {p} : req[q].op = "book"})

BookBegin(p) ==
  /\ pc[p] = "idle"
  /\ Len(bookings) + InFlightBooks(p) < MaxBookings
  /\ \E s \in SlotIds, st \in Times, en \in Times :
       req' = [req EXCEPT ![p] = [NoReq EXCEPT !.op = "book", !.slotId = s,
                                   !.startTime = st, !.endTime = en]]
  /\ pc' = [pc EXCEPT ![p] = "bk_validate"]
  /\ result' = [result EXCEPT ![p] = "none"]
  /\ UNCHANGED <<slots, bookings, now, cache, loc>>

BookValidate(p) ==
  /\ pc[p] = "bk_validate"
  /\ IF ValidWindow(req[p].startTime, req[p].endTime, now)
     THEN /\ Goto(p, "bk_findSlot")
          /\ UNCHANGED loc
     ELSE Finish(p, "InvalidWindow")
  /\ UNCHANGED <<slots, bookings, now, cache>>

BookFindSlotAnyStatus(p) ==
  /\ pc[p] = "bk_findSlot"
  /\ IF req[p].slotId \notin DOMAIN slots
     THEN Finish(p, "SlotNotFound")
     ELSE /\ Goto(p, "bk_findConflict")
          /\ UNCHANGED loc
  /\ UNCHANGED <<slots, bookings, now, cache>>

(* Step 1: tx.parkingSlot.findUnique, lines 87-97 *)
BookFindSlot(p) ==
  /\ pc[p] = "bk_findSlot"
  /\ IF req[p].slotId \notin DOMAIN slots
     THEN Finish(p, "SlotNotFound")
     ELSE IF slots[req[p].slotId] # "AVAILABLE"
          THEN Finish(p, "SlotUnavailable")
          ELSE /\ Goto(p, "bk_findConflict")
               /\ UNCHANGED loc
  /\ UNCHANGED <<slots, bookings, now, cache>>

NewBooking(p) ==
  [userId |-> UserOf(p), slotId |-> req[p].slotId, startTime |-> req[p].startTime,
   endTime |-> req[p].endTime, status |-> "CONFIRMED"]

(* Step 2: tx.booking.findFirst, lines 104-120 *)
BookFindConflict(p) ==
  /\ pc[p] = "bk_findConflict"
  /\ IF findConflict(bookings, req[p].slotId, req[p].startTime, req[p].endTime) # 0
     THEN Finish(p, "SlotConflict")
     ELSE /\ Goto(p, "bk_create")
          /\ UNCHANGED loc
  /\ UNCHANGED <<slots, bookings, now, cache>>

BookCreateOutsideTransaction(p) ==
  /\ pc[p] = "bk_create"
  /\ bookings' = Append(bookings, NewBooking(p))
  /\ Goto(p, "bk_updateSlot")
  /\ UNCHANGED <<slots, now, cache, loc>>

(* Step 3: tx.booking.create, lines 123-131: private until commit *)
BookCreate(p) ==
  /\ pc[p] = "bk_create"
  /\ loc' = [loc EXCEPT ![p].ins = <<NewBooking(p)>>]
  /\ Goto(p, "bk_updateSlot")
  /\ UNCHANGED <<slots, bookings, now, cache>>

BookUpdateSlotOccupied(p) ==
  /\ pc[p] = "bk_updateSlot"
  /\ ~SlotLockedByOther(p, req[p].slotId)
  /\ loc' = [loc EXCEPT ![p].slWrite = req[p].slotId, ![p].slStatus = "OCCUPIED"]
  /\ Goto(p, "bk_commit")
  /\ UNCHANGED <<slots, bookings, now, cache>>

(* Step 4: tx.parkingSlot.update, lines 134-137; waits for the row lock *)
BookUpdateSlot(p) ==
  /\ pc[p] = "bk_updateSlot"
  /\ ~SlotLockedByOther(p, req[p].slotId)
  /\ loc' = [loc EXCEPT ![p].slWrite = req[p].slotId, ![p].slStatus = "RESERVED"]
  /\ Goto(p, "bk_commit")
  /\ UNCHANGED <<slots, bookings, now, cache>>

(* the transaction callback returns, line 139-140: commit *)
BookCommit(p) ==
  /\ pc[p] = "bk_commit"
  /\ ApplyWrites(p)
  /\ pc' = [pc EXCEPT ![p] = "bk_invalidate"]
  /\ loc' = [loc EXCEPT ![p] = NoLoc]
  /\ result' = [result EXCEPT ![p] = "Booked"]
  /\ req' = [req EXCEPT ![p] = NoReq]
  /\ UNCHANGED <<now, cache>>

(* bookings/route.ts line 61: invalidateCachePattern('slots:*') *)
BookInvalidate(p) ==
  /\ pc[p] = "bk_invalidate"
  /\ invalidateCachePattern
  /\ pc' = [pc EXCEPT ![p] = "idle"]
  /\ UNCHANGED <<slots, bookings, now, req, loc, result>>

(* -------------------- PUT /api/bookings/[id]/cancel: cancelBooking *)
CancelBegin(p) ==
  /\ pc[p] = "idle"
  /\ \E b \in BookingIds :
       req' = [req EXCEPT ![p] = [NoReq EXCEPT !.op = "cancel", !.bookingId = b]]
  /\ pc' = [pc EXCEPT ![p] = "cn_find"]
  /\ result' = [result EXCEPT ![p] = "none"]
  /\ UNCHANGED <<slots, bookings, now, cache, loc>>

(* tx.booking.findUnique, lines 262-272 *)
CancelFind(p) ==
  /\ pc[p] = "cn_find"
  /\ IF req[p].bookingId > Len(bookings)
     THEN Finish(p, "BookingNotFound")
     ELSE IF bookings[req[p].bookingId].status = "CANCELLED"
          THEN Finish(p, "AlreadyCancelledError")
          ELSE /\ Goto(p, "cn_update")
               /\ UNCHANGED loc
  /\ UNCHANGED <<slots, bookings, now, cache>>

(* tx.booking.update, lines 275-278; waits for the row lock *)
CancelUpdate(p) ==
  /\ pc[p] = "cn_update"
  /\ ~BookingLockedByOther(p, req[p].bookingId)
  /\ loc' = [loc EXCEPT ![p].bkWrite = req[p].bookingId]
  /\ Goto(p, "cn_findActive")
  /\ UNCHANGED <<slots, bookings, now, cache>>

(* tx.booking.findFirst({slotId, status in [CONFIRMED, PENDING],          *)
(*   id: {not: bookingId}}), lines 281-289: 0 for null                    *)
RECURSIVE FindOtherActiveFrom(_, _, _, _)
FindOtherActiveFrom(ledger, i, slotId, bookingId) ==
  IF i > Len(ledger) THEN 0
  ELSE IF /\ ledger[i].slotId = slotId
          /\ ledger[i].status \in ActiveStatus
          /\ i # bookingId
       THEN i
       ELSE FindOtherActiveFrom(ledger, i + 1, slotId, bookingId)

findOtherActive(ledger, slotId, bookingId) ==
  FindOtherActiveFrom(ledger, 1, slotId, bookingId)

CancelFindActiveKeepsSlot(p) ==
  /\ pc[p] = "cn_findActive"
  /\ Goto(p, "cn_commit")
  /\ UNCHANGED <<slots, bookings, now, cache, loc>>

(* lines 281-297: the recheck, then the slot update when nothing remains *)
CancelFindActive(p) ==
  /\ pc[p] = "cn_findActive"
  /\ IF findOtherActive(bookings, bookings[req[p].bookingId].slotId, req[p].bookingId) # 0
     THEN Goto(p, "cn_commit")
     ELSE Goto(p, "cn_updateSlot")
  /\ UNCHANGED <<slots, bookings, now, cache, loc>>

CancelUpdateSlot(p) ==
  /\ pc[p] = "cn_updateSlot"
  /\ ~SlotLockedByOther(p, bookings[req[p].bookingId].slotId)
  /\ loc' = [loc EXCEPT ![p].slWrite = bookings[req[p].bookingId].slotId,
                        ![p].slStatus = "AVAILABLE"]
  /\ Goto(p, "cn_commit")
  /\ UNCHANGED <<slots, bookings, now, cache>>

(* line 299-300: commit; the PUT route returns without touching the cache *)
CancelCommit(p) ==
  /\ pc[p] = "cn_commit"
  /\ ApplyWrites(p)
  /\ Finish(p, "Cancelled")
  /\ UNCHANGED <<now, cache>>

(* ------------------------------------ DELETE /api/bookings/[id] handler *)
DeleteBegin(p) ==
  /\ pc[p] = "idle"
  /\ \E b \in BookingIds :
       req' = [req EXCEPT ![p] = [NoReq EXCEPT !.op = "delete", !.bookingId = b]]
  /\ pc' = [pc EXCEPT ![p] = "dl_find"]
  /\ result' = [result EXCEPT ![p] = "none"]
  /\ UNCHANGED <<slots, bookings, now, cache, loc>>

(* prisma.booking.findUnique outside any transaction, part_007 92-113 *)
DeleteFind(p) ==
  /\ pc[p] = "dl_find"
  /\ IF req[p].bookingId > Len(bookings)
     THEN Finish(p, "BookingNotFound")
     ELSE IF RoleOf(p) # "ADMIN" /\ bookings[req[p].bookingId].userId # UserOf(p)
          THEN Finish(p, "Forbidden")
          ELSE IF bookings[req[p].bookingId].status = "CANCELLED"
               THEN Finish(p, "AlreadyCancelledOk")
               ELSE /\ Goto(p, "dl_update")
                    /\ UNCHANGED loc
  /\ UNCHANGED <<slots, bookings, now, cache>>

(* tx.booking.update, part_007 116-119 *)
DeleteUpdate(p) ==
  /\ pc[p] = "dl_update"
  /\ ~BookingLockedByOther(p, req[p].bookingId)
  /\ loc' = [loc EXCEPT ![p].bkWrite = req[p].bookingId]
  /\ Goto(p, "dl_updateSlot")
  /\ UNCHANGED <<slots, bookings, now, cache>>

(* tx.parkingSlot.update to AVAILABLE, part_007 121-124 *)
DeleteUpdateSlot(p) ==
  /\ pc[p] = "dl_updateSlot"
  /\ ~SlotLockedByOther(p, bookings[req[p].bookingId].slotId)
  /\ loc' = [loc EXCEPT ![p].slWrite = bookings[req[p].bookingId].slotId,
                        ![p].slStatus = "AVAILABLE"]
  /\ Goto(p, "dl_commit")
  /\ UNCHANGED <<slots, bookings, now, cache>>

DeleteCommit(p) ==
  /\ pc[p] = "dl_commit"
  /\ ApplyWrites(p)
  /\ pc' = [pc EXCEPT ![p] = "dl_invalidate"]
  /\ loc' = [loc EXCEPT ![p] = NoLoc]
  /\ result' = [result EXCEPT ![p] = "DeleteCancelled"]
  /\ req' = [req EXCEPT ![p] = NoReq]
  /\ UNCHANGED <<now, cache>>

(* part_007 line 129 *)
DeleteInvalidate(p) ==
  /\ pc[p] = "dl_invalidate"
  /\ invalidateCachePattern
  /\ pc' = [pc EXCEPT ![p] = "idle"]
  /\ UNCHANGED <<slots, bookings, now, req, loc, result>>

(* ------------------------------- PUT /api/admin/slots: status override *)
(* lines 36-42 *)
AdminFind(p) ==
  /\ pc[p] = "idle"
  /\ RoleOf(p) = "ADMIN"
  /\ \E s \in SlotIds, st \in SlotStatus :
       IF s \notin DOMAIN slots
       THEN Finish(p, "OverrideSlotNotFound")
       ELSE /\ pc' = [pc EXCEPT ![p] = "ad_update"]
            /\ req' = [req EXCEPT ![p] = [NoReq EXCEPT !.op = "admin", !.slotId = s, !.status = st]]
            /\ result' = [result EXCEPT ![p] = "none"]
            /\ UNCHANGED loc
  /\ UNCHANGED <<slots, bookings, now, cache>>

(* lines 45-48: a single autocommitted UPDATE *)
AdminUpdate(p) ==
  /\ pc[p] = "ad_update"
  /\ ~SlotLockedByOther(p, req[p].slotId)
  /\ slots' = [slots EXCEPT ![req[p].slotId] = req[p].status]
  /\ pc' = [pc EXCEPT ![p] = "ad_invalidate"]
  /\ result' = [result EXCEPT ![p] = "Overridden"]
  /\ req' = [req EXCEPT ![p] = NoReq]
  /\ UNCHANGED <<bookings, now, cache, loc>>

(* line 51 *)
AdminInvalidate(p) ==
  /\ pc[p] = "ad_invalidate"
  /\ invalidateCachePattern
  /\ pc' = [pc EXCEPT ![p] = "idle"]
  /\ UNCHANGED <<slots, bookings, now, req, loc, result>>

(* ------------------------------------------------------ isSlotAvailable *)
(* a caller invokes isSlotAvailable(slotId, startTime, endTime) *)
AvailBegin(p) ==
  /\ pc[p] = "idle"
  /\ \E s \in SlotIds, st \in Times, en \in Times :
       req' = [req EXCEPT ![p] = [NoReq EXCEPT !.op = "avail", !.slotId = s,
                                   !.startTime = st, !.endTime = en]]
  /\ pc' = [pc EXCEPT ![p] = "av_findSlot"]
  /\ result' = [result EXCEPT ![p] = "none"]
  /\ UNCHANGED <<slots, bookings, now, cache, loc>>

(* prisma.parkingSlot.findUnique, lines 186-193; no transaction            *)
AvailFindSlot(p) ==
  /\ pc[p] = "av_findSlot"
  /\ IF req[p].slotId \notin DOMAIN slots
     THEN Finish(p, "AvailFalse")
     ELSE IF slots[req[p].slotId] # "AVAILABLE"
          THEN Finish(p, "AvailFalse")
          ELSE /\ Goto(p, "av_findConflict")
               /\ UNCHANGED loc
  /\ UNCHANGED <<slots, bookings, now, cache>>

AvailFindConflictNotNegated(p) ==
  /\ pc[p] = "av_findConflict"
  /\ IF findConflict(bookings, req[p].slotId, req[p].startTime, req[p].endTime) # 0
     THEN Finish(p, "AvailTrue")
     ELSE Finish(p, "AvailFalse")
  /\ UNCHANGED <<slots, bookings, now, cache>>

(* prisma.booking.findFirst, lines 196-206: return !conflict *)
AvailFindConflict(p) ==
  /\ pc[p] = "av_findConflict"
  /\ IF findConflict(bookings, req[p].slotId, req[p].startTime, req[p].endTime) # 0
     THEN Finish(p, "AvailFalse")
     ELSE Finish(p, "AvailTrue")
  /\ UNCHANGED <<slots, bookings, now, cache>>

(* ------------------------------------------------------ lifecycle sweeps *)
(* completeExpiredBookings: every PENDING or CONFIRMED booking whose      *)
(* endTime is in the past becomes COMPLETED; a slot left without any      *)
(* active booking by that reverts to AVAILABLE                            *)
IsExpired(b, t) == b.status \in ActiveStatus /\ b.endTime < t

ExpiredLedger(ledger, t) ==
  [i \in 1..Len(ledger) |->
     IF IsExpired(ledger[i], t) THEN [ledger[i] EXCEPT !.status = "COMPLETED"]
     ELSE ledger[i]]

HasActive(ledger, s) ==
  \E i \in 1..Len(ledger) : ledger[i].slotId = s /\ ledger[i].status \in ActiveStatus

ExpiredSlots(ledger, t) ==
  {s \in SlotIds : /\ \E i \in 1..Len(ledger) : ledger[i].slotId = s /\ IsExpired(ledger[i], t)
                 /\ ~HasActive(ExpiredLedger(ledger, t), s)}

RowsLockedByOther(p, bs, ss) ==
  \/ \E b \in bs : BookingLockedByOther(p, b)
  \/ \E s \in ss : SlotLockedByOther(p, s)

completeExpiredBookings(p) ==
  /\ ~RowsLockedByOther(p, {i \in 1..Len(bookings) : IsExpired(bookings[i], now)},
                        ExpiredSlots(bookings, now))
  /\ bookings' = ExpiredLedger(bookings, now)
  /\ slots' = [s \in DOMAIN slots |-> IF s \in ExpiredSlots(bookings, now) THEN "AVAILABLE"
                               ELSE slots[s]]
  /\ IF slots' # slots THEN invalidateCachePattern ELSE UNCHANGED cache

(* markActiveBookingsAsOccupied: every CONFIRMED booking whose window     *)
(* contains the current time makes its slot OCCUPIED                      *)
IsOccupying(b, t) == b.status = "CONFIRMED" /\ b.startTime <= t /\ t < b.endTime

OccupiedSlots(ledger, t) ==
  {s \in SlotIds : \E i \in 1..Len(ledger) : ledger[i].slotId = s /\ IsOccupying(ledger[i], t)}

markActiveBookingsAsOccupied(p) ==
  /\ ~RowsLockedByOther(p, {}, OccupiedSlots(bookings, now))
  /\ slots' = [s \in DOMAIN slots |-> IF s \in OccupiedSlots(bookings, now) THEN "OCCUPIED"
                               ELSE slots[s]]
  /\ UNCHANGED bookings
  /\ IF slots' # slots THEN invalidateCachePattern ELSE UNCHANGED cache

(* ------------------------------------------- GET /api/slots/[id] handler *)
GetExpireWithoutSweep(p) ==
  /\ pc[p] = "idle"
  /\ UNCHANGED <<slots, bookings, cache>>
  /\ \E s \in SlotIds :
       req' = [req EXCEPT ![p] = [NoReq EXCEPT !.op = "get", !.slotId = s]]
  /\ pc' = [pc EXCEPT ![p] = "gs_occupy"]
  /\ result' = [result EXCEPT ![p] = "none"]
  /\ UNCHANGED <<now, loc>>

(* part_010 line 15 *)
GetExpire(p) ==
  /\ pc[p] = "idle"
  /\ completeExpiredBookings(p)
  /\ \E s \in SlotIds :
       req' = [req EXCEPT ![p] = [NoReq EXCEPT !.op = "get", !.slotId = s]]
  /\ pc' = [pc EXCEPT ![p] = "gs_occupy"]
  /\ result' = [result EXCEPT ![p] = "none"]
  /\ UNCHANGED <<now, loc>>

GetOccupyWithoutSweep(p) ==
  /\ pc[p] = "gs_occupy"
  /\ UNCHANGED <<slots, bookings, cache>>
  /\ Goto(p, "gs_read")
  /\ UNCHANGED <<now, loc>>

(* part_010 line 16 *)
GetOccupy(p) ==
  /\ pc[p] = "gs_occupy"
  /\ markActiveBookingsAsOccupied(p)
  /\ Goto(p, "gs_read")
  /\ UNCHANGED <<now, loc>>

(* part_010 lines 25-47 *)
GetRead(p) ==
  /\ pc[p] = "gs_read"
  /\ IF req[p].slotId \notin DOMAIN slots
     THEN Finish(p, "ReadSlotNotFound")
     ELSE Finish(p, "SlotRead")
  /\ UNCHANGED <<slots, bookings, now, cache>>

(* ------------------------------------------------------- storage failure *)
(* any statement of an open transaction may throw: Prisma rolls back and  *)
(* the catch blocks (bookingService 153-160, 313-320; part_007 139-142)   *)
(* turn it into a failure result                                          *)
TxLabels == {"bk_findSlot", "bk_findConflict", "bk_create", "bk_updateSlot", "bk_commit",
             "cn_find", "cn_update", "cn_findActive", "cn_updateSlot", "cn_commit",
             "dl_update", "dl_updateSlot", "dl_commit"}

StorageFailure(p) ==
  /\ pc[p] \in TxLabels
  /\ Finish(p, "StorageError")
  /\ UNCHANGED <<slots, bookings, now, cache>>

Next ==
  \/ Tick
  \/ \E p \in Procs : BookBegin(p)
  \/ \E p \in Procs : BookValidate(p)
  \/ \E p \in Procs : BookFindSlot(p)
  \/ \E p \in Procs : BookFindConflict(p)
  \/ \E p \in Procs : BookCreate(p)
  \/ \E p \in Procs : BookUpdateSlot(p)
  \/ \E p \in Procs : BookCommit(p)
  \/ \E p \in Procs : BookInvalidate(p)
  \/ \E p \in Procs : CancelBegin(p)
  \/ \E p \in Procs : CancelFind(p)
  \/ \E p \in Procs : CancelUpdate(p)
  \/ \E p \in Procs : CancelFindActive(p)
  \/ \E p \in Procs : CancelUpdateSlot(p)
  \/ \E p \in Procs : CancelCommit(p)
  \/ \E p \in Procs : DeleteBegin(p)
  \/ \E p \in Procs : DeleteFind(p)
  \/ \E p \in Procs : DeleteUpdate(p)
  \/ \E p \in Procs : DeleteUpdateSlot(p)
  \/ \E p \in Procs : DeleteCommit(p)
  \/ \E p \in Procs : DeleteInvalidate(p)
  \/ \E p \in Procs : AdminFind(p)
  \/ \E p \in Procs : AdminUpdate(p)
  \/ \E p \in Procs : AdminInvalidate(p)
  \/ \E p \in Procs : GetExpire(p)
  \/ \E p \in Procs : GetOccupy(p)
  \/ \E p \in Procs : GetRead(p)
  \/ \E p \in Procs : StorageFailure(p)

Spec == Init /\ [][Next]_vars

(* ------- reservations with overrides and failures, nothing else running *)
NextReserve ==
  \/ Tick
  \/ \E p \in Procs : BookBegin(p)
  \/ \E p \in Procs : BookValidate(p)
  \/ \E p \in Procs : BookFindSlot(p)
  \/ \E p \in Procs : BookFindConflict(p)
  \/ \E p \in Procs : BookCreate(p)
  \/ \E p \in Procs : BookUpdateSlot(p)
  \/ \E p \in Procs : BookCommit(p)
  \/ \E p \in Procs : BookInvalidate(p)
  \/ \E p \in Procs : AdminFind(p)
  \/ \E p \in Procs : AdminUpdate(p)
  \/ \E p \in Procs : AdminInvalidate(p)
  \/ \E p \in Procs : StorageFailure(p)

SpecReserve == Init /\ [][NextReserve]_vars

(* ------------- two overlapping reservations of one slot, in flight at once *)
Windows == {w \in Times \X Times : w[1] < w[2]}

Overlapping(w1, w2) == w1[1] < w2[2] /\ w1[2] > w2[1]

BookReq(s, w) ==
  [NoReq EXCEPT !.op = "book", !.slotId = s, !.startTime = w[1], !.endTime = w[2]]

InitRace ==
  /\ slots = [s \in {"s1"} |-> "AVAILABLE"]
  /\ bookings = <<>>
  /\ now = 0
  /\ cache = InitCache
  /\ pc = [p \in Procs |-> "bk_validate"]
  /\ \E w1 \in Windows, w2 \in Windows :
       /\ Overlapping(w1, w2)
       /\ req = [p \in Procs |-> IF p = "p1" THEN BookReq("s1", w1) ELSE BookReq("s1", w2)]
  /\ loc = [p \in Procs |-> NoLoc]
  /\ result = [p \in Procs |-> "none"]

NextRace ==
  \/ \E p \in Procs : BookValidate(p)
  \/ \E p \in Procs : BookFindSlot(p)
  \/ \E p \in Procs : BookFindConflict(p)
  \/ \E p \in Procs : BookCreate(p)
  \/ \E p \in Procs : BookUpdateSlot(p)
  \/ \E p \in Procs : BookCommit(p)
  \/ \E p \in Procs : BookInvalidate(p)

SpecRace == InitRace /\ [][NextRace]_vars

(* --------- the conflict check applied to every small ledger and window *)
BookingRows ==
  [userId : {"p1"}, slotId : SlotIds, startTime : Times, endTime : Times,
   status : BookingStatus]

ValidRows == {b \in BookingRows : b.endTime > b.startTime}

Ledgers ==
  {<<>>} \cup {<<a>> : a \in ValidRows} \cup {<<a, b>> : a \in ValidRows, b \in ValidRows}

InitOverlap ==
  /\ \E st \in SlotStatus : slots = [s \in SlotIds |-> st]
  /\ bookings \in Ledgers
  /\ now = 0
  /\ cache = InitCache
  /\ pc = [p \in Procs |-> IF p = "p1" THEN "bk_findConflict" ELSE "av_findSlot"]
  /\ \E s \in SlotIds, w \in Windows : req = [p \in Procs |-> BookReq(s, w)]
  /\ loc = [p \in Procs |-> NoLoc]
  /\ result = [p \in Procs |-> "none"]

NextOverlap ==
  \/ \E p \in Procs : BookFindConflict(p)
  \/ \E p \in Procs : AvailFindSlot(p)
  \/ \E p \in Procs : AvailFindConflict(p)

SpecOverlap == InitOverlap /\ [][NextOverlap]_vars

(* ------------- the engine and its endpoints without the admin override *)
NextEngine ==
  \/ Tick
  \/ \E p \in Procs : BookBegin(p)
  \/ \E p \in Procs : BookValidate(p)
  \/ \E p \in Procs : BookFindSlot(p)
  \/ \E p \in Procs : BookFindConflict(p)
  \/ \E p \in Procs : BookCreate(p)
  \/ \E p \in Procs : BookUpdateSlot(p)
  \/ \E p \in Procs : BookCommit(p)
  \/ \E p \in Procs : BookInvalidate(p)
  \/ \E p \in Procs : CancelBegin(p)
  \/ \E p \in Procs : CancelFind(p)
  \/ \E p \in Procs : CancelUpdate(p)
  \/ \E p \in Procs : CancelFindActive(p)
  \/ \E p \in Procs : CancelUpdateSlot(p)
  \/ \E p \in Procs : CancelCommit(p)
  \/ \E p \in Procs : DeleteBegin(p)
  \/ \E p \in Procs : DeleteFind(p)
  \/ \E p \in Procs : DeleteUpdate(p)
  \/ \E p \in Procs : DeleteUpdateSlot(p)
  \/ \E p \in Procs : DeleteCommit(p)
  \/ \E p \in Procs : DeleteInvalidate(p)
  \/ \E p \in Procs : GetExpire(p)
  \/ \E p \in Procs : GetOccupy(p)
  \/ \E p \in Procs : GetRead(p)
  \/ \E p \in Procs : StorageFailure(p)

SpecEngine == Init /\ [][NextEngine]_vars

(* ------------- reservations, overrides and availability queries together *)
NextRoundTrip ==
  \/ \E p \in Procs : BookBegin(p)
  \/ \E p \in Procs : BookValidate(p)
  \/ \E p \in Procs : BookFindSlot(p)
  \/ \E p \in Procs : BookFindConflict(p)
  \/ \E p \in Procs : BookCreate(p)
  \/ \E p \in Procs : BookUpdateSlot(p)
  \/ \E p \in Procs : BookCommit(p)
  \/ \E p \in Procs : BookInvalidate(p)
  \/ \E p \in Procs : AdminFind(p)
  \/ \E p \in Procs : AdminUpdate(p)
  \/ \E p \in Procs : AdminInvalidate(p)
  \/ \E p \in Procs : AvailBegin(p)
  \/ \E p \in Procs : AvailFindSlot(p)
  \/ \E p \in Procs : AvailFindConflict(p)

SpecRoundTrip == Init /\ [][NextRoundTrip]_vars

(* ------------------------------------------------ GET /api/slots handler *)
ListFilters == {"all"}

(* part_008 line 85 *)
CacheKey(filter) ==
  IF filter = "AVAILABLE" THEN "slots:AVAILABLE:all:all:50:0" ELSE "slots:all:all:all:50:0"

(* part_008 lines 90-122: prisma.parkingSlot.findMany({where}) *)
findMany(filter) ==
  [s \in {x \in DOMAIN slots : filter = "all" \/ slots[x] = filter} |-> slots[s]]

(* part_008 line 74 *)
ListExpire(p) ==
  /\ pc[p] = "idle"
  /\ completeExpiredBookings(p)
  /\ \E f \in ListFilters :
       req' = [req EXCEPT ![p] = [NoReq EXCEPT !.op = "list", !.status = f]]
  /\ pc' = [pc EXCEPT ![p] = "ls_occupy"]
  /\ result' = [result EXCEPT ![p] = "none"]
  /\ UNCHANGED <<now, loc>>

(* part_008 line 75 *)
ListOccupy(p) ==
  /\ pc[p] = "ls_occupy"
  /\ markActiveBookingsAsOccupied(p)
  /\ Goto(p, "ls_get")
  /\ UNCHANGED <<now, loc>>

ListGetThrows(p) ==
  /\ pc[p] = "ls_get"
  /\ IF ~cache.up
     THEN Finish(p, "CacheError")
     ELSE IF cache.store[CacheKey(req[p].status)] # <<>>
          THEN /\ loc' = [loc EXCEPT ![p].data = cache.store[CacheKey(req[p].status)]]
               /\ Goto(p, "ls_return")
          ELSE /\ Goto(p, "ls_fetch")
               /\ UNCHANGED loc
  /\ UNCHANGED <<slots, bookings, now, cache>>

(* getOrSetCache, redis.ts 66-75: redis.get; a hit is returned, a miss    *)
(* goes on to fetch, an error goes to the catch                           *)
ListGet(p) ==
  /\ pc[p] = "ls_get"
  /\ IF ~cache.up
     THEN /\ Goto(p, "ls_fallback")
          /\ UNCHANGED loc
     ELSE IF cache.store[CacheKey(req[p].status)] # <<>>
          THEN /\ loc' = [loc EXCEPT ![p].data = cache.store[CacheKey(req[p].status)]]
               /\ Goto(p, "ls_return")
          ELSE /\ Goto(p, "ls_fetch")
               /\ UNCHANGED loc
  /\ UNCHANGED <<slots, bookings, now, cache>>

(* redis.ts line 78: data = await fetchFunction() *)
ListFetch(p) ==
  /\ pc[p] = "ls_fetch"
  /\ loc' = [loc EXCEPT ![p].data = <<findMany(req[p].status)>>]
  /\ Goto(p, "ls_set")
  /\ UNCHANGED <<slots, bookings, now, cache>>

(* redis.ts lines 81-83: redis.setex(key, ttl, data), then return data *)
ListSet(p) ==
  /\ pc[p] = "ls_set"
  /\ IF cache.up
     THEN /\ cache' = [cache EXCEPT !.store[CacheKey(req[p].status)] = loc[p].data]
          /\ Goto(p, "ls_return")
     ELSE /\ Goto(p, "ls_fallback")
          /\ UNCHANGED cache
  /\ UNCHANGED <<slots, bookings, now, loc>>

(* redis.ts lines 84-88: the catch fetches directly *)
ListFallback(p) ==
  /\ pc[p] = "ls_fallback"
  /\ loc' = [loc EXCEPT ![p].data = <<findMany(req[p].status)>>]
  /\ Goto(p, "ls_return")
  /\ UNCHANGED <<slots, bookings, now, cache>>

(* part_008 line 127: the listing goes back to the caller *)
ListReturn(p) ==
  /\ pc[p] = "ls_return"
  /\ Finish(p, "Listed")
  /\ UNCHANGED <<slots, bookings, now, cache>>

(* ------------------------------------------------------ the Redis server *)
RedisDown ==
  /\ cache.up
  /\ cache' = [cache EXCEPT !.up = FALSE]
  /\ UNCHANGED <<slots, bookings, now, pc, req, loc, result>>

RedisUp ==
  /\ ~cache.up
  /\ cache' = [cache EXCEPT !.up = TRUE]
  /\ UNCHANGED <<slots, bookings, now, pc, req, loc, result>>

(* an entry written by setex(key, 30, ...) is dropped when its TTL is over *)
CacheExpire ==
  /\ \E k \in CacheKeys :
       /\ cache.store[k] # <<>>
       /\ cache' = [cache EXCEPT !.store[k] = <<>>]
  /\ UNCHANGED <<slots, bookings, now, pc, req, loc, result>>

(* ---- every writer of a slot, after one reservation and one listing *)
(* p1 has reserved s1 for [0, 1) and GET /api/slots has cached the listing *)
InitWarm ==
  /\ slots = [s \in {"s1"} |-> "RESERVED"]
  /\ bookings = <<[userId |-> "p1", slotId |-> "s1", startTime |-> 0, endTime |-> 1,
                   status |-> "CONFIRMED"]>>
  /\ now = 0
  /\ cache = [store |-> [k \in CacheKeys |-> <<[s \in {"s1"} |-> "RESERVED"]>>], up |-> TRUE]
  /\ pc = [p \in Procs |-> "idle"]
  /\ req = [p \in Procs |-> NoReq]
  /\ loc = [p \in Procs |-> NoLoc]
  /\ result = [p \in Procs |-> "none"]

(* ----- listings beside the writers that invalidate, Redis up or down *)
NextCache ==
  \/ \E p \in Procs : BookBegin(p)
  \/ \E p \in Procs : BookValidate(p)
  \/ \E p \in Procs : BookFindSlot(p)
  \/ \E p \in Procs : BookFindConflict(p)
  \/ \E p \in Procs : BookCreate(p)
  \/ \E p \in Procs : BookUpdateSlot(p)
  \/ \E p \in Procs : BookCommit(p)
  \/ \E p \in Procs : BookInvalidate(p)
  \/ \E p \in Procs : AdminFind(p)
  \/ \E p \in Procs : AdminUpdate(p)
  \/ \E p \in Procs : AdminInvalidate(p)
  \/ \E p \in Procs : ListExpire(p)
  \/ \E p \in Procs : ListOccupy(p)
  \/ \E p \in Procs : ListGet(p)
  \/ \E p \in Procs : ListFetch(p)
  \/ \E p \in Procs : ListSet(p)
  \/ \E p \in Procs : ListFallback(p)
  \/ \E p \in Procs : ListReturn(p)
  \/ \E p \in Procs : DeleteBegin(p)
  \/ \E p \in Procs : DeleteFind(p)
  \/ \E p \in Procs : DeleteUpdate(p)
  \/ \E p \in Procs : DeleteUpdateSlot(p)
  \/ \E p \in Procs : DeleteCommit(p)
  \/ \E p \in Procs : DeleteInvalidate(p)
  \/ RedisDown
  \/ RedisUp
  \/ CacheExpire

SpecCache == InitWarm /\ [][NextCache]_vars

SpecWarm == InitWarm /\ [][Next]_vars

(* ------------ the same with a Redis server that answers every command *)
NextListing ==
  \/ \E p \in Procs : BookBegin(p)
  \/ \E p \in Procs : BookValidate(p)
  \/ \E p \in Procs : BookFindSlot(p)
  \/ \E p \in Procs : BookFindConflict(p)
  \/ \E p \in Procs : BookCreate(p)
  \/ \E p \in Procs : BookUpdateSlot(p)
  \/ \E p \in Procs : BookCommit(p)
  \/ \E p \in Procs : BookInvalidate(p)
  \/ \E p \in Procs : AdminFind(p)
  \/ \E p \in Procs : AdminUpdate(p)
  \/ \E p \in Procs : AdminInvalidate(p)
  \/ \E p \in Procs : ListExpire(p)
  \/ \E p \in Procs : ListOccupy(p)
  \/ \E p \in Procs : ListGet(p)
  \/ \E p \in Procs : ListFetch(p)
  \/ \E p \in Procs : ListSet(p)
  \/ \E p \in Procs : ListReturn(p)
  \/ CacheExpire

SpecListing == Init /\ [][NextListing]_vars

(* ------------------------------------- what the caller of a route is told *)
(* bookings/route.ts 56-58 and 91: every result without success, whatever  *)
(* its error message, is answered 409 BOOKING_FAILED                       *)
BookResponse(outcome) ==
  IF outcome = "Booked"
  THEN [status |-> 201, code |-> "none", error |-> "none"]
  ELSE [status |-> 409, code |-> "BOOKING_FAILED", error |-> outcome]

(* part_007 211-216: PUT /api/bookings/[id]/cancel *)
CancelResponse(outcome) ==
  IF outcome = "Cancelled"
  THEN [status |-> 200, code |-> "none", error |-> "none"]
  ELSE [status |-> 409, code |-> "none", error |-> outcome]

(* ------------- reservations, DELETE cancellations and the sweeps, in time *)
NextSweep ==
  \/ Tick
  \/ \E p \in Procs : BookBegin(p)
  \/ \E p \in Procs : BookValidate(p)
  \/ \E p \in Procs : BookFindSlot(p)
  \/ \E p \in Procs : BookFindConflict(p)
  \/ \E p \in Procs : BookCreate(p)
  \/ \E p \in Procs : BookUpdateSlot(p)
  \/ \E p \in Procs : BookCommit(p)
  \/ \E p \in Procs : BookInvalidate(p)
  \/ \E p \in Procs : DeleteBegin(p)
  \/ \E p \in Procs : DeleteFind(p)
  \/ \E p \in Procs : DeleteUpdate(p)
  \/ \E p \in Procs : DeleteUpdateSlot(p)
  \/ \E p \in Procs : DeleteCommit(p)
  \/ \E p \in Procs : DeleteInvalidate(p)
  \/ \E p \in Procs : GetExpire(p)
  \/ \E p \in Procs : GetOccupy(p)
  \/ \E p \in Procs : GetRead(p)

SpecSweep == Init /\ [][NextSweep]_vars

(* ---- two cancelBooking calls, one per active booking of s1, in flight *)
CancelReq(b) == [NoReq EXCEPT !.op = "cancel", !.bookingId = b]

InitCancelRace ==
  /\ \E st \in {"RESERVED", "OCCUPIED"} : slots = [s \in {"s1"} |-> st]
  /\ \E w1 \in Windows, w2 \in Windows :
       bookings = <<[userId |-> "p1", slotId |-> "s1", startTime |-> w1[1],
                     endTime |-> w1[2], status |-> "CONFIRMED"],
                    [userId |-> "p2", slotId |-> "s1", startTime |-> w2[1],
                     endTime |-> w2[2], status |-> "CONFIRMED"]>>
  /\ now = 0
  /\ cache = InitCache
  /\ pc = [p \in Procs |-> "cn_find"]
  /\ req = [p \in Procs |-> IF p = "p1" THEN CancelReq(1) ELSE CancelReq(2)]
  /\ loc = [p \in Procs |-> NoLoc]
  /\ result = [p \in Procs |-> "none"]

NextCancelRace ==
  \/ \E p \in Procs : CancelFind(p)
  \/ \E p \in Procs : CancelUpdate(p)
  \/ \E p \in Procs : CancelFindActive(p)
  \/ \E p \in Procs : CancelUpdateSlot(p)
  \/ \E p \in Procs : CancelCommit(p)

SpecCancelRace == InitCancelRace /\ [][NextCancelRace]_vars

(* --------------------------- the expiry sweep, statement by statement *)
(* completeExpiredBookings as the transaction that sections 4.4 and 5    *)
(* describe, on the store the engine uses (READ COMMITTED): the update   *)
(* of the ended bookings, the re-derivation of each touched slot's       *)
(* status from the ledger, the conditional slot update, the commit.      *)
(* completeExpiredBookings(p) above is this transaction run without      *)
(* another transaction in between.                                       *)
SweepMark(p) ==
  /\ pc[p] = "sw_mark"
  /\ LET ended == {i \in 1..Len(bookings) : IsExpired(bookings[i], now)}
     IN /\ ~RowsLockedByOther(p, ended, {})
        /\ loc' = [loc EXCEPT ![p].swDone = ended]
  /\ Goto(p, "sw_recheck")
  /\ UNCHANGED <<slots, bookings, now, cache>>

(* reads committed rows and the transaction's own writes *)
SweepRecheck(p) ==
  /\ pc[p] = "sw_recheck"
  /\ loc' = [loc EXCEPT ![p].swFree =
               {s \in DOMAIN slots :
                  /\ \E i \in loc[p].swDone : bookings[i].slotId = s
                  /\ ~\E i \in 1..Len(bookings) :
                        /\ i \notin loc[p].swDone
                        /\ bookings[i].slotId = s
                        /\ bookings[i].status \in ActiveStatus}]
  /\ Goto(p, "sw_free")
  /\ UNCHANGED <<slots, bookings, now, cache>>

SweepFree(p) ==
  /\ pc[p] = "sw_free"
  /\ ~RowsLockedByOther(p, {}, loc[p].swFree)
  /\ loc' = [loc EXCEPT ![p].swHeld = loc[p].swFree]
  /\ Goto(p, "sw_commit")
  /\ UNCHANGED <<slots, bookings, now, cache>>

SweepCommit(p) ==
  /\ pc[p] = "sw_commit"
  /\ bookings' = [i \in 1..Len(bookings) |->
                    IF i \in loc[p].swDone
                    THEN [bookings[i] EXCEPT !.status = "COMPLETED"]
                    ELSE bookings[i]]
  /\ slots' = [s \in DOMAIN slots |-> IF s \in loc[p].swHeld THEN "AVAILABLE" ELSE slots[s]]
  /\ IF slots' # slots THEN invalidateCachePattern ELSE UNCHANGED cache
  /\ Finish(p, "Swept")
  /\ UNCHANGED now

(* a sweep (p1) starts while a reservation (p2) is in flight on a slot     *)
(* whose earlier booking has a window that may have ended; the slot is    *)
(* RESERVED by that booking or was put back to AVAILABLE by an override   *)
LateWindows == {w \in (0..MaxTime + 1) \X (0..MaxTime + 1) : w[1] < w[2]}

InitSweepRace ==
  /\ \E st \in {"AVAILABLE", "RESERVED"} : slots = [s \in {"s1"} |-> st]
  /\ \E w \in Windows :
       bookings = <<[slotId |-> "s1", userId |-> "p1", startTime |-> w[1],
                     endTime |-> w[2], status |-> "CONFIRMED"]>>
  /\ now \in Times
  /\ cache = InitCache
  /\ pc = [p \in Procs |-> IF p = "p1" THEN "sw_mark" ELSE "bk_validate"]
  /\ \E w \in LateWindows :
       req = [p \in Procs |-> IF p = "p1" THEN NoReq ELSE BookReq("s1", w)]
  /\ loc = [p \in Procs |-> NoLoc]
  /\ result = [p \in Procs |-> "none"]

NextSweepRace ==
  \/ \E p \in Procs : SweepMark(p)
  \/ \E p \in Procs : SweepRecheck(p)
  \/ \E p \in Procs : SweepFree(p)
  \/ \E p \in Procs : SweepCommit(p)
  \/ \E p \in Procs : BookValidate(p)
  \/ \E p \in Procs : BookFindSlot(p)
  \/ \E p \in Procs : BookFindConflict(p)
  \/ \E p \in Procs : BookCreate(p)
  \/ \E p \in Procs : BookUpdateSlot(p)
  \/ \E p \in Procs : BookCommit(p)
  \/ \E p \in Procs : BookInvalidate(p)

SpecSweepRace == InitSweepRace /\ [][NextSweepRace]_vars

(* ------------------------------------------ reads that keep occurring *)
(* reservations, the passing of time and the single-slot read; every      *)
(* request that has started runs to its end (an awaited statement         *)
(* returns), and a read starts again and again                            *)
NextRead ==
  \/ Tick
  \/ \E p \in Procs : BookBegin(p)
  \/ \E p \in Procs : BookValidate(p)
  \/ \E p \in Procs : BookFindSlot(p)
  \/ \E p \in Procs : BookFindConflict(p)
  \/ \E p \in Procs : BookCreate(p)
  \/ \E p \in Procs : BookUpdateSlot(p)
  \/ \E p \in Procs : BookCommit(p)
  \/ \E p \in Procs : BookInvalidate(p)
  \/ \E p \in Procs : GetExpire(p)
  \/ \E p \in Procs : GetOccupy(p)
  \/ \E p \in Procs : GetRead(p)

RequestsFinish ==
  \A p \in Procs :
    /\ WF_vars(BookValidate(p))
    /\ WF_vars(BookFindSlot(p))
    /\ WF_vars(BookFindConflict(p))
    /\ WF_vars(BookCreate(p))
    /\ WF_vars(BookUpdateSlot(p))
    /\ WF_vars(BookCommit(p))
    /\ WF_vars(BookInvalidate(p))
    /\ WF_vars(GetOccupy(p))
    /\ WF_vars(GetRead(p))

ReadsKeepOccurring == SF_vars(\E p \in Procs : GetExpire(p))

SpecRead == Init /\ [][NextRead]_vars /\ RequestsFinish /\ ReadsKeepOccurring

(* ------------------------------- the two cancel paths, side by side *)
(* slots s1 and s2 start with the same status and the same two bookings;  *)
(* p1 (the owner) sends DELETE for the first booking of s1 while          *)
(* cancelBooking runs for the first booking of s2                         *)
DeleteReq(b) == [NoReq EXCEPT !.op = "delete", !.bookingId = b]

TwinRow(s, w, st) ==
  [userId |-> "p1", slotId |-> s, startTime |-> w[1], endTime |-> w[2], status |-> st]

InitCancelPaths ==
  /\ \E st \in SlotStatus : slots = [s \in {"s1", "s2"} |-> st]
  /\ \E a \in BookingStatus, b \in BookingStatus :
       bookings = <<TwinRow("s1", <<0, 1>>, a), TwinRow("s1", <<1, 2>>, b),
                    TwinRow("s2", <<0, 1>>, a), TwinRow("s2", <<1, 2>>, b)>>
  /\ now = 0
  /\ cache = InitCache
  /\ pc = [p \in Procs |-> IF p = "p1" THEN "dl_find" ELSE "cn_find"]
  /\ req = [p \in Procs |-> IF p = "p1" THEN DeleteReq(1) ELSE CancelReq(3)]
  /\ loc = [p \in Procs |-> NoLoc]
  /\ result = [p \in Procs |-> "none"]

NextCancelPaths ==
  \/ \E p \in Procs : DeleteFind(p)
  \/ \E p \in Procs : DeleteUpdate(p)
  \/ \E p \in Procs : DeleteUpdateSlot(p)
  \/ \E p \in Procs : DeleteCommit(p)
  \/ \E p \in Procs : DeleteInvalidate(p)
  \/ \E p \in Procs : CancelFind(p)
  \/ \E p \in Procs : CancelUpdate(p)
  \/ \E p \in Procs : CancelFindActive(p)
  \/ \E p \in Procs : CancelUpdateSlot(p)
  \/ \E p \in Procs : CancelCommit(p)

SpecCancelPaths == InitCancelPaths /\ [][NextCancelPaths]_vars

(* ------------------------- isSlotAvailable beside a reservation alone *)
(* slots s1 and s2 (or no slot at all) start with the same status and     *)
(* the same bookings; isSlotAvailable is asked about s1 while             *)
(* bookParkingSlot runs for s2 with the same window                       *)
AvailReq(s, st, en) ==
  [NoReq EXCEPT !.op = "avail", !.slotId = s, !.startTime = st, !.endTime = en]

TwinLedgers ==
  {<<>>}
    \cup {<<TwinRow("s1", w, a), TwinRow("s2", w, a)>> : w \in Windows, a \in BookingStatus}
    \cup {<<TwinRow("s1", w, a), TwinRow("s1", v, b), TwinRow("s2", w, a), TwinRow("s2", v, b)>> :
            w \in Windows, v \in Windows, a \in BookingStatus, b \in BookingStatus}

InitAvail ==
  /\ \E d \in {{}, {"s1", "s2"}}, st \in SlotStatus : slots = [s \in d |-> st]
  /\ bookings \in TwinLedgers
  /\ now \in Times
  /\ cache = InitCache
  /\ pc = [p \in Procs |-> IF p = "p1" THEN "av_findSlot" ELSE "bk_validate"]
  /\ \E st \in Times, en \in Times :
       req = [p \in Procs |-> IF p = "p1" THEN AvailReq("s1", st, en)
                              ELSE BookReq("s2", <<st, en>>)]
  /\ loc = [p \in Procs |-> NoLoc]
  /\ result = [p \in Procs |-> "none"]

NextAvail ==
  \/ \E p \in Procs : AvailFindSlot(p)
  \/ \E p \in Procs : AvailFindConflict(p)
  \/ \E p \in Procs : BookValidate(p)
  \/ \E p \in Procs : BookFindSlot(p)
  \/ \E p \in Procs : BookFindConflict(p)
  \/ \E p \in Procs : BookCreate(p)
  \/ \E p \in Procs : BookUpdateSlot(p)
  \/ \E p \in Procs : BookCommit(p)
  \/ \E p \in Procs : BookInvalidate(p)

SpecAvail == InitAvail /\ [][NextAvail]_vars

(* --------------------------------- reserve and cancel, one at a time *)
(* a request starts only when no other request is in flight               *)
NoneInFlight == \A q \in Procs : pc[q] = "idle"

SerialBookBegin(p) == NoneInFlight /\ BookBegin(p)

SerialCancelBegin(p) == NoneInFlight /\ CancelBegin(p)

NextSerial ==
  \/ Tick
  \/ \E p \in Procs : SerialBookBegin(p)
  \/ \E p \in Procs : BookValidate(p)
  \/ \E p \in Procs : BookFindSlot(p)
  \/ \E p \in Procs : BookFindConflict(p)
  \/ \E p \in Procs : BookCreate(p)
  \/ \E p \in Procs : BookUpdateSlot(p)
  \/ \E p \in Procs : BookCommit(p)
  \/ \E p \in Procs : BookInvalidate(p)
  \/ \E p \in Procs : SerialCancelBegin(p)
  \/ \E p \in Procs : CancelFind(p)
  \/ \E p \in Procs : CancelUpdate(p)
  \/ \E p \in Procs : CancelFindActive(p)
  \/ \E p \in Procs : CancelUpdateSlot(p)
  \/ \E p \in Procs : CancelCommit(p)
  \/ \E p \in Procs : StorageFailure(p)

SpecSerial == Init /\ [][NextSerial]_vars

(* ------------- reserve, cancel, DELETE and the override, one at a time *)
SerialDeleteBegin(p) == NoneInFlight /\ DeleteBegin(p)

SerialAdminFind(p) == NoneInFlight /\ AdminFind(p)

NextOverride ==
  \/ NextSerial
  \/ \E p \in Procs : SerialDeleteBegin(p)
  \/ \E p \in Procs : DeleteFind(p)
  \/ \E p \in Procs : DeleteUpdate(p)
  \/ \E p \in Procs : DeleteUpdateSlot(p)
  \/ \E p \in Procs : DeleteCommit(p)
  \/ \E p \in Procs : DeleteInvalidate(p)
  \/ \E p \in Procs : SerialAdminFind(p)
  \/ \E p \in Procs : AdminUpdate(p)
  \/ \E p \in Procs : AdminInvalidate(p)

SpecOverride == Init /\ [][NextOverride]_vars

(* ================================================================ claims *)
StepOf(p) == pc'[p] # pc[p]

(* C1: two reservations with overlapping windows on one slot that are in  *)
(* flight together end with exactly one booked and the other rejected as  *)
(* SlotConflict, whatever the interleaving of their statements            *)
C1_ExactlyOneBooked ==
  (\A p \in Procs : pc[p] = "idle")
    => \E p \in Procs : \E q \in Procs \ {p} :
         result[p] = "Booked" /\ result[q] = "SlotConflict"

(* C2: no two PENDING or CONFIRMED bookings of one slot have overlapping  *)
(* [start, end) windows, in any reachable state                           *)
C2_NoOverlap ==
  \A i \in 1..Len(bookings) : \A j \in 1..Len(bookings) :
    (/\ i # j
     /\ bookings[i].slotId = bookings[j].slotId
     /\ bookings[i].status \in {"PENDING", "CONFIRMED"}
     /\ bookings[j].status \in {"PENDING", "CONFIRMED"})
    => ~(bookings[i].startTime < bookings[j].endTime
           /\ bookings[i].endTime > bookings[j].startTime)

(* C3: reserve is atomic: the only step of a reservation that changes the *)
(* store is its commit, which adds the booking and sets the slot RESERVED *)
(* together; every other step, a failure included, changes neither       *)
C3_ReserveAtomic ==
  [][\A p \in Procs :
       (req[p].op = "book" /\ StepOf(p)) =>
         IF pc[p] = "bk_commit" /\ result'[p] = "Booked"
         THEN /\ bookings' = Append(bookings, NewBooking(p))
              /\ slots' = [slots EXCEPT ![req[p].slotId] = "RESERVED"]
         ELSE bookings' = bookings /\ slots' = slots]_vars

C3_Witness ==
  \E p \in Procs : \E q \in Procs \ {p} :
    /\ result[p] = "Booked"
    /\ result[q] = "StorageError"
    /\ Len(bookings) = 1
    /\ slots["s1"] = "RESERVED"

(* C4: a reservation that starts exactly when an active booking of the    *)
(* slot ends, and overlaps no active booking, is not turned away          *)
ClaimConflict(ledger, slotId, startTime, endTime) ==
  \E i \in 1..Len(ledger) :
    /\ ledger[i].slotId = slotId
    /\ ledger[i].status \in {"PENDING", "CONFIRMED"}
    /\ ledger[i].startTime < endTime
    /\ ledger[i].endTime > startTime

AtSlotChecks(p) ==
  /\ req[p].op = "book"
  /\ pc[p] \in {"bk_findSlot", "bk_findConflict"}
  /\ StepOf(p)
  /\ req[p].slotId \in DOMAIN slots
  /\ slots[req[p].slotId] \in {"AVAILABLE", "RESERVED"}

BackToBackRequest(p) ==
  /\ \E i \in 1..Len(bookings) :
       /\ bookings[i].slotId = req[p].slotId
       /\ bookings[i].status = "CONFIRMED"
       /\ bookings[i].endTime = req[p].startTime
  /\ ~ClaimConflict(bookings, req[p].slotId, req[p].startTime, req[p].endTime)

C4_BackToBackAccepted ==
  [][\A p \in Procs :
       (AtSlotChecks(p) /\ BackToBackRequest(p))
         => result'[p] \notin {"SlotUnavailable", "SlotConflict"}]_vars

(* C5: a reservation whose window overlaps an active booking of the slot  *)
(* is rejected as SlotConflict, not as another kind, and changes nothing  *)
C5_OverlapIsSlotConflict ==
  [][\A p \in Procs :
       (/\ AtSlotChecks(p)
        /\ ClaimConflict(bookings, req[p].slotId, req[p].startTime, req[p].endTime)
        /\ result'[p] # "StorageError")
         => /\ \/ pc[p] = "bk_findSlot" /\ pc'[p] = "bk_findConflict"
               \/ result'[p] = "SlotConflict"
            /\ bookings' = bookings
            /\ slots' = slots]_vars

(* C6: the conflict check of reserve and of isSlotAvailable reports a     *)
(* conflict exactly when some PENDING or CONFIRMED booking of the slot    *)
(* has start < requested end and end > requested start                    *)
C6_ConflictCheckExact ==
  [][\A p \in Procs :
       StepOf(p) =>
         /\ pc[p] = "bk_findConflict" =>
              (result'[p] = "SlotConflict"
                 <=> ClaimConflict(bookings, req[p].slotId, req[p].startTime, req[p].endTime))
         /\ pc[p] = "av_findConflict" =>
              (result'[p] = "AvailFalse"
                 <=> ClaimConflict(bookings, req[p].slotId, req[p].startTime, req[p].endTime))]_vars

(* a back-to-back CONFIRMED booking and an overlapping CANCELLED one are  *)
(* in the ledger and both checks report no conflict                      *)
C6_Witness ==
  /\ pc["p1"] = "bk_create"
  /\ result["p2"] = "AvailTrue"
  /\ Len(bookings) = 2
  /\ bookings[1].slotId = req["p1"].slotId
  /\ bookings[1].status = "CONFIRMED"
  /\ bookings[1].endTime = req["p1"].startTime
  /\ bookings[2].slotId = req["p1"].slotId
  /\ bookings[2].status = "CANCELLED"
  /\ bookings[2].startTime < req["p1"].endTime
  /\ bookings[2].endTime > req["p1"].startTime

(* C7: a reservation with start >= end, or with start before the current  *)
(* time, returns InvalidWindow from validation, never opens a transaction *)
(* and leaves bookings and slots as they were                             *)
C7_InvalidWindowRejected ==
  [][\A p \in Procs :
       (/\ pc[p] = "bk_validate"
        /\ StepOf(p)
        /\ (req[p].startTime >= req[p].endTime \/ req[p].startTime < now))
         => /\ pc'[p] = "idle"
            /\ result'[p] = "InvalidWindow"
            /\ loc'[p] = NoLoc
            /\ bookings' = bookings
            /\ slots' = slots]_vars

C7_Witness ==
  /\ now > 0
  /\ \E p \in Procs : \E q \in Procs \ {p} :
       /\ pc[p] = "idle" /\ result[p] = "InvalidWindow"
       /\ pc[q] = "idle" /\ result[q] = "Booked"

(* C8: the slot read of a reservation sends it on to the conflict check   *)
(* only if the slot exists and is AVAILABLE; an absent slot ends it with  *)
(* SlotNotFound and any other status with SlotUnavailable, and neither    *)
(* inserts a booking nor changes a slot                                   *)
C8_SlotMustBeAvailable ==
  [][\A p \in Procs :
       (pc[p] = "bk_findSlot" /\ StepOf(p) /\ result'[p] # "StorageError")
         => IF req[p].slotId \notin DOMAIN slots
            THEN /\ pc'[p] = "idle" /\ result'[p] = "SlotNotFound"
                 /\ bookings' = bookings /\ slots' = slots
            ELSE IF slots[req[p].slotId] \in {"RESERVED", "OCCUPIED", "MAINTENANCE"}
                 THEN /\ pc'[p] = "idle" /\ result'[p] = "SlotUnavailable"
                      /\ bookings' = bookings /\ slots' = slots
                 ELSE pc'[p] = "bk_findConflict"]_vars

C8_Witness ==
  \E p \in Procs : \E q \in Procs \ {p} :
    /\ result[p] = "SlotNotFound"
    /\ result[q] = "SlotUnavailable"
    /\ slots["s1"] = "MAINTENANCE"

(* C9: cancelling a booking that is already CANCELLED succeeds and        *)
(* changes neither the booking nor the slot                               *)
C9_CancelTwiceSucceeds ==
  [][\A p \in Procs :
       (/\ req[p].op = "cancel"
        /\ pc[p] = "cn_find"
        /\ StepOf(p)
        /\ req[p].bookingId <= Len(bookings)
        /\ bookings[req[p].bookingId].status = "CANCELLED"
        /\ result'[p] # "StorageError")
         => /\ result'[p] = "Cancelled"
            /\ bookings' = bookings
            /\ slots' = slots]_vars

(* C10: when cancelBooking commits, the booking is CANCELLED; the slot is *)
(* AVAILABLE if no other PENDING or CONFIRMED booking of it is left, and  *)
(* keeps its status if one is                                             *)
OtherActiveLeft(ledger, slotId, bookingId) ==
  \E i \in 1..Len(ledger) :
    /\ i # bookingId
    /\ ledger[i].slotId = slotId
    /\ ledger[i].status \in {"PENDING", "CONFIRMED"}

C10_CancelRestoresSlot ==
  [][\A p \in Procs :
       (pc[p] = "cn_commit" /\ result'[p] = "Cancelled")
         => LET b == req[p].bookingId
                s == bookings[b].slotId
            IN /\ bookings'[b].status = "CANCELLED"
               /\ IF OtherActiveLeft(bookings', s, b)
                  THEN slots'[s] = slots[s]
                  ELSE slots'[s] = "AVAILABLE"]_vars

(* C11: a slot whose status is AVAILABLE has no PENDING or CONFIRMED      *)
(* booking whose window is running or still to come, in every state that  *)
(* reservations, cancellations through either endpoint and the sweeps     *)
(* can produce                                                            *)
C11_AvailableHasNoActiveBooking ==
  \A s \in DOMAIN slots :
    slots[s] = "AVAILABLE" =>
      ~\E i \in 1..Len(bookings) :
         /\ bookings[i].slotId = s
         /\ bookings[i].status \in {"PENDING", "CONFIRMED"}
         /\ bookings[i].endTime > now

(* C12: a slot whose status is OCCUPIED has a CONFIRMED booking whose      *)
(* [start, end) window contains the current time, in every state          *)
OccupyingNow(ledger, s, t) ==
  \E i \in 1..Len(ledger) :
    /\ ledger[i].slotId = s
    /\ ledger[i].status = "CONFIRMED"
    /\ ledger[i].startTime <= t
    /\ t < ledger[i].endTime

OverrideStep == \E p \in Procs : pc[p] = "ad_update" /\ StepOf(p)

Reserved(ledger, slotId, startTime, endTime) ==
  \E i \in 1..Len(ledger) :
    /\ ledger[i].slotId = slotId
    /\ ledger[i].status = "CONFIRMED"
    /\ ledger[i].startTime = startTime
    /\ ledger[i].endTime = endTime

C13_ReservedIsNotAvailable ==
  [][\A p \in Procs :
       (/\ req[p].op = "avail"
        /\ pc'[p] = "idle"
        /\ StepOf(p)
        /\ Reserved(bookings, req[p].slotId, req[p].startTime, req[p].endTime))
         => result'[p] = "AvailFalse"]_vars

(* a query of exactly the reserved window is past its status read while   *)
(* the booking stands, and another query has been answered false          *)
C13_Witness ==
  \E p \in Procs : \E q \in Procs \ {p} :
    /\ pc[p] = "av_findConflict"
    /\ Reserved(bookings, req[p].slotId, req[p].startTime, req[p].endTime)
    /\ pc[q] = "idle"
    /\ result[q] = "AvailFalse"

(* C14: an operation that has committed a change of a slot's status has   *)
(* deleted every key of the slots:* namespace by the time it returns to   *)
(* its caller: reserve, cancel through either endpoint, the override and  *)
(* each sweep that changes a slot                                         *)
C14_MutationInvalidatesListings ==
  [][\A p \in Procs :
       /\ (/\ StepOf(p)
           /\ pc'[p] = "idle"
           /\ result'[p] \in {"Booked", "DeleteCancelled", "Overridden"})
            => cache'.store = EmptyStore
       /\ (pc[p] = "cn_commit" /\ result'[p] = "Cancelled" /\ slots' # slots)
            => cache'.store = EmptyStore
       /\ (pc[p] \in {"gs_occupy", "ls_occupy"} /\ StepOf(p) /\ slots' # slots)
            => cache'.store = EmptyStore]_vars

(* C15: a listing served from the cache while no other operation is in    *)
(* flight, so that every committed write has finished its invalidation,   *)
(* shows each slot with the status the store holds, even if an earlier    *)
(* listing was filling the cache while a write committed                  *)
C15_NoStaleListing ==
  [][\A p \in Procs :
       (/\ pc[p] = "ls_get"
        /\ pc'[p] = "ls_return"
        /\ \A q \in Procs \ {p} : pc[q] = "idle")
         => loc'[p].data = <<findMany(req[p].status)>>]_vars

(* C16: when redis.get or redis.setex fails, getOrSetCache goes on to     *)
(* compute the listing from the store and returns it; when the            *)
(* invalidation after a committed reserve, DELETE cancel or override      *)
(* fails, the handler still returns the success it had and the store      *)
(* keeps the committed rows                                               *)
C16_CacheFailureTolerated ==
  [][\A p \in Procs :
       StepOf(p) =>
         /\ (pc[p] \in {"ls_get", "ls_set"} /\ ~cache.up) => pc'[p] = "ls_fallback"
         /\ pc[p] = "ls_fallback" =>
              /\ pc'[p] = "ls_return"
              /\ loc'[p].data = <<findMany(req[p].status)>>
         /\ pc[p] = "ls_return" => result'[p] = "Listed"
         /\ (pc[p] \in {"bk_invalidate", "dl_invalidate", "ad_invalidate"} /\ ~cache.up) =>
              /\ pc'[p] = "idle"
              /\ result'[p] = result[p]
              /\ result[p] \in {"Booked", "DeleteCancelled", "Overridden"}
              /\ slots' = slots
              /\ bookings' = bookings]_vars

(* Redis is down: a listing is in the catch of getOrSetCache, and an      *)
(* override has returned while the key it should have deleted is there    *)
C16_Witness ==
  /\ ~cache.up
  /\ pc["p1"] = "ls_fallback"
  /\ pc["p2"] = "idle"
  /\ result["p2"] = "Overridden"
  /\ cache.store["slots:all:all:all:50:0"] = <<[s \in {"s1"} |-> "RESERVED"]>>
  /\ slots["s1"] = "MAINTENANCE"

(* C17: a storage failure inside the reserve or cancel transaction ends   *)
(* the call at once (no second attempt), leaves bookings and slots as     *)
(* they were, and is answered in a category of its own: its HTTP status   *)
(* and error code differ from those of InvalidWindow, SlotNotFound,       *)
(* SlotUnavailable, SlotConflict and BookingNotFound                      *)
DomainRejections ==
  {"InvalidWindow", "SlotNotFound", "SlotUnavailable", "SlotConflict", "BookingNotFound"}

Category(r) == <<r.status, r.code>>

C17_StorageFailureIsDistinct ==
  [][\A p \in Procs :
       (req[p].op \in {"book", "cancel"} /\ result'[p] = "StorageError")
         => /\ pc'[p] = "idle"
            /\ bookings' = bookings
            /\ slots' = slots
            /\ \A d \in DomainRejections :
                 IF req[p].op = "book"
                 THEN Category(BookResponse("StorageError")) # Category(BookResponse(d))
                 ELSE Category(CancelResponse("StorageError")) # Category(CancelResponse(d))]_vars

(* C18: a booking whose status is CANCELLED or COMPLETED never becomes     *)
(* PENDING or CONFIRMED again, whatever reserve, cancel, sweep or          *)
(* override step follows                                                   *)
C18_NeverResurrected ==
  [][\A i \in 1..Len(bookings) :
       bookings[i].status \in {"CANCELLED", "COMPLETED"}
         => /\ i <= Len(bookings')
            /\ bookings'[i].status \in {"CANCELLED", "COMPLETED"}]_vars

(* a cancelled and a completed booking are in the ledger while a cancel   *)
(* of one of them and a new reservation have just returned                *)
C18_Witness ==
  /\ Len(bookings) = 2
  /\ \E i \in 1..2 : bookings[i].status = "CANCELLED"
  /\ \E i \in 1..2 : bookings[i].status = "COMPLETED"
  /\ \E p \in Procs : pc[p] = "idle" /\ result[p] \in {"AlreadyCancelledError", "AlreadyCancelledOk"}

(* C19: a cancellation asked for by a caller who neither owns the booking *)
(* nor has the ADMIN role is rejected as Forbidden at the first look at   *)
(* the booking, before any booking, slot or cache entry is changed, on    *)
(* the DELETE endpoint and on the PUT cancel endpoint alike               *)
C19_ForeignCancelForbidden ==
  [][\A p \in Procs :
       (/\ req[p].op \in {"cancel", "delete"}
        /\ pc[p] \in {"cn_find", "dl_find"}
        /\ StepOf(p)
        /\ req[p].bookingId <= Len(bookings)
        /\ RoleOf(p) # "ADMIN"
        /\ bookings[req[p].bookingId].userId # UserOf(p)
        /\ result'[p] # "StorageError")
         => /\ result'[p] = "Forbidden"
            /\ pc'[p] = "idle"
            /\ bookings' = bookings
            /\ slots' = slots
            /\ cache' = cache]_vars

(* C20: the expiry sweep turns every PENDING or CONFIRMED booking whose   *)
(* endTime is before the current time into COMPLETED and leaves the other *)
(* bookings alone; a slot becomes AVAILABLE exactly when a booking of it   *)
(* expired and no PENDING or CONFIRMED booking of it is left, and keeps   *)
(* its status otherwise                                                   *)
EndedActive(b, t) == b.status \in {"PENDING", "CONFIRMED"} /\ b.endTime < t

C22_ConcurrentCancelsFreeSlot ==
  (\A p \in Procs : pc[p] = "idle" /\ result[p] = "Cancelled")
    => /\ bookings[1].status = "CANCELLED"
       /\ bookings[2].status = "CANCELLED"
       /\ slots["s1"] = "AVAILABLE"


EndedOn(s) ==
  /\ s \in DOMAIN slots
  /\ \E i \in 1..Len(bookings) : bookings[i].slotId = s /\ IsExpired(bookings[i], now)

HeldByCurrent(s) ==
  \E i \in 1..Len(bookings) :
    /\ bookings[i].slotId = s
    /\ bookings[i].status \in ActiveStatus
    /\ ~IsExpired(bookings[i], now)

C25_DeleteMatchesCancelBooking ==
  (\A p \in Procs : pc[p] = "idle")
    => /\ slots["s1"] = slots["s2"]
       /\ bookings[1].status = bookings[3].status
       /\ bookings[2].status = bookings[4].status


ActiveOn(s) ==
  {i \in 1..Len(bookings) : bookings[i].slotId = s /\ bookings[i].status \in ActiveStatus}

C27_SerialSlotMatchesLedger ==
  \A s \in DOMAIN slots :
    /\ Cardinality(ActiveOn(s)) <= 1
    /\ slots[s] = "RESERVED" <=> Cardinality(ActiveOn(s)) = 1
    /\ slots[s] = "AVAILABLE" <=> Cardinality(ActiveOn(s)) = 0

C27_Witness ==
  /\ NoneInFlight
  /\ Len(bookings) = 2
  /\ bookings[1].status = "CANCELLED"
  /\ bookings[2].status = "CONFIRMED"
  /\ slots["s1"] = "RESERVED"


(* C28: a slot that the administrative override has put in MAINTENANCE    *)
(* keeps that status when a reservation, a cancelBooking call or a DELETE *)
(* commits, also when the cancelled booking was on the slot before the    *)
(* override                                                               *)
C28_MaintenanceSurvivesCancel ==
  [][\A p \in Procs :
       (pc[p] \in {"bk_commit", "cn_commit", "dl_commit"} /\ pc'[p] # pc[p])
         => \A s \in DOMAIN slots :
              slots[s] = "MAINTENANCE" => slots'[s] = "MAINTENANCE"]_vars


(* C29: cancelling a booking whose status is COMPLETED, through           *)
(* cancelBooking or through DELETE, changes neither the status of that    *)
(* booking nor the status of its slot                                     *)
C29_CancelLeavesCompleted ==
  [][\A p \in Procs :
       (/\ pc[p] \in {"cn_commit", "dl_commit"}
        /\ pc'[p] # pc[p]
        /\ bookings[req[p].bookingId].status = "COMPLETED")
         => /\ bookings'[req[p].bookingId].status = "COMPLETED"
            /\ slots' = slots]_vars


(* C30: one call of getOrSetCache invokes its compute function at most    *)
(* once: the fetch in the catch never runs in a call that has already     *)
(* fetched                                                                *)
C30_ComputeAtMostOnce ==
  [][\A p \in Procs :
       (pc[p] = "ls_fallback" /\ pc'[p] = "ls_return") => loc[p].data = <<>>]_vars
====
